---- MODULE Spec2Model ----
(***************************************************************************)
(* Model of src/src/encoder.py: the byte-level BPE tokenizer (Encoder),     *)
(* its byte<->unicode table, its memo cache, and the backend factory        *)
(* get_encoder.                                                             *)
(*                                                                          *)
(* Representation.  A Python str is a sequence of code points (naturals);   *)
(* a bytes object is a sequence of naturals in 0..255; a BPE symbol is a    *)
(* str; a word is a sequence of symbols.  A dict is a sequence of           *)
(* <<key, value>> entries in insertion order with distinct keys.            *)
(***************************************************************************)
EXTENDS Naturals, Integers, Sequences, FiniteSets, TLC

VARIABLES encoder,       \* Encoder.encoder : dict symbol -> id
          decoder,       \* Encoder.decoder : id -> symbol
          bpe_ranks,     \* Encoder.bpe_ranks : dict pair -> rank
          cache,         \* Encoder.cache   : dict token -> merged string
          input,         \* argument of the call in progress / last call
          output,        \* value returned by the last call
          pc,            \* position of the driver
          budget,        \* calls the driver may still make
          factory,       \* per-process state of get_encoder
          threads,       \* per-thread position and locals inside Encoder.bpe
          lock           \* the caller's mutual exclusion around bpe, if any

vars == <<encoder, decoder, bpe_ranks, cache, input, output, pc, budget, factory,
          threads, lock>>

\* no call of bpe is in progress and no lock is in use
NoLock == [on |-> FALSE, holder |-> 0]

NoThreads == threads = <<>> /\ lock = NoLock

----------------------------------------------------------------------------
(* Generic helpers on sequences and dicts *)

\* F applied to the value of v, with v evaluated once
With(v, F(_)) == CHOOSE y \in {F(x) : x \in {v}} : TRUE

\* ss[lo] \o ... \o ss[hi], halving the range
RECURSIVE ConcatRange(_, _, _)
ConcatRange(ss, lo, hi) ==
    IF lo > hi THEN <<>>
    ELSE IF lo = hi THEN ss[lo]
    ELSE ConcatRange(ss, lo, (lo + hi) \div 2)
         \o ConcatRange(ss, (lo + hi) \div 2 + 1, hi)

\* ''.join(ss)
Concat(ss) == With(ss \o <<>>, LAMBDA t : ConcatRange(t, 1, Len(t)))

\* the k-th element of a set of integers, in increasing order
Kth(S, k) == CHOOSE p \in S : Cardinality({q \in S : q < p}) = k - 1

Range(s) == {s[i] : i \in 1..Len(s)}

\* key in d
DictHas(d, k) == \E i \in 1..Len(d) : d[i][1] = k

\* d[k] for a key that is present
DictGet(d, k) == d[CHOOSE i \in 1..Len(d) : d[i][1] = k][2]

\* d[k] = v : overwrite in place when present, append otherwise
DictPut(d, k, v) ==
    IF DictHas(d, k)
    THEN [i \in 1..Len(d) |-> IF d[i][1] = k THEN <<k, v>> ELSE d[i]]
    ELSE Append(d, <<k, v>>)

\* a popitem that removes the entry inserted first
DictPopFirst(d) == SubSeq(d, 2, Len(d))

\* d.popitem() : removes the entry inserted last
DictPopItem(d) == SubSeq(d, 1, Len(d) - 1)

----------------------------------------------------------------------------
(* bytes_to_unicode, encoder.py:8-28 *)

\* the list bs on line 19, in list order
bs0 == [i \in 1..188 |-> IF i <= 94 THEN 32 + i
                         ELSE IF i <= 106 THEN 66 + i
                         ELSE 67 + i]

\* the bytes the loop of lines 22-26 appends: those not in bs, and the k-th
\* of them in the increasing order in which the loop meets them
AppendedBytes == {b \in 0..255 : b \notin Range(bs0)}

NthAppended(k) == Kth(AppendedBytes, k)

\* line 25 when n is incremented before it is used
AppendedCharAfterIncrement(n) == 256 + n + 1

\* line 25 when n is never incremented
AppendedCharStuck(n) == 256

\* the code point appended to cs when n bytes were appended before (line 25)
AppendedChar(n) == 256 + n

\* bs and cs after the loop
bs == bs0 \o [k \in 1..Cardinality(AppendedBytes) |-> NthAppended(k)]

cs == bs0 \o [k \in 1..Cardinality(AppendedBytes) |-> AppendedChar(k - 1)]

\* dict(zip(bs, cs)), as a dict in insertion order; the keys are distinct
\* because the loop appends only bytes that bs does not hold yet
bytes_to_unicode == [i \in 1..Len(bs) |-> <<bs[i], cs[i]>>]

\* self.byte_encoder (line 47) as a function on the keys of the dict
byte_encoder ==
    [b \in {bytes_to_unicode[i][1] : i \in 1..Len(bytes_to_unicode)} |->
        DictGet(bytes_to_unicode, b)]

\* {v:k for k, v in d.items()} : a later entry with the same value wins
InvertDict(d) ==
    LET vals == {d[i][2] : i \in 1..Len(d)}
        last(v) == CHOOSE i \in 1..Len(d) :
                      /\ d[i][2] = v
                      /\ \A j \in (i+1)..Len(d) : d[j][2] # v
    IN  [v \in vals |-> d[last(v)][1]]

\* self.byte_decoder (line 48)
byte_decoder == InvertDict(bytes_to_unicode)

----------------------------------------------------------------------------
(* str.encode('utf-8') (line 111) and bytes.decode('utf-8', errors) (line 117) *)

\* UTF-8 bytes of one code point
Utf8Char(cp) ==
    IF cp < 128 THEN <<cp>>
    ELSE IF cp < 2048 THEN <<192 + (cp \div 64), 128 + (cp % 64)>>
    ELSE IF cp < 65536
         THEN <<224 + (cp \div 4096), 128 + ((cp \div 64) % 64), 128 + (cp % 64)>>
    ELSE <<240 + (cp \div 262144), 128 + ((cp \div 4096) % 64),
           128 + ((cp \div 64) % 64), 128 + (cp % 64)>>

Utf8Encode(s) == Concat([i \in 1..Len(s) |-> Utf8Char(s[i])])

\* number of bytes a lead byte announces (0: not a lead byte)
Utf8Need(b0) ==
    IF b0 \in 194..223 THEN 2
    ELSE IF b0 \in 224..239 THEN 3
    ELSE IF b0 \in 240..244 THEN 4
    ELSE 0

\* admissible range of the second byte after lead byte b0
Utf8Second(b0) ==
    IF b0 = 224 THEN 160..191
    ELSE IF b0 = 237 THEN 128..159
    ELSE IF b0 = 240 THEN 144..191
    ELSE IF b0 = 244 THEN 128..143
    ELSE 128..191

\* how many bytes from position i on form a well-formed prefix of a sequence
\* announced by the lead byte at i (at most need)
RECURSIVE Utf8Good(_, _, _, _)
Utf8Good(b, i, k, need) ==
    IF k >= need \/ i + k > Len(b) THEN k
    ELSE IF (k = 1 /\ b[i + k] \in Utf8Second(b[i])) \/ (k > 1 /\ b[i + k] \in 128..191)
         THEN Utf8Good(b, i, k + 1, need)
         ELSE k

Utf8Value(b, i, need) ==
    IF need = 2 THEN (b[i] - 192) * 64 + (b[i+1] - 128)
    ELSE IF need = 3
         THEN (b[i] - 224) * 4096 + (b[i+1] - 128) * 64 + (b[i+2] - 128)
    ELSE (b[i] - 240) * 262144 + (b[i+1] - 128) * 4096
         + (b[i+2] - 128) * 64 + (b[i+3] - 128)

\* the sequence that starts at byte i: whether it is well formed, how many
\* bytes it takes, and the code point it gives
Utf8Step(b, i) ==
    IF b[i] < 128 THEN [ok |-> TRUE, step |-> 1, cp |-> b[i]]
    ELSE With(Utf8Need(b[i]), LAMBDA need :
         With(IF need = 0 THEN 1 ELSE Utf8Good(b, i, 1, need), LAMBDA good :
            IF need # 0 /\ good = need
            THEN [ok |-> TRUE, step |-> need, cp |-> Utf8Value(b, i, need)]
            ELSE [ok |-> FALSE, step |-> good, cp |-> 65533]))

\* the positions where the decoder, reading b from left to right, starts a
\* sequence: those that no sequence starting up to three bytes further left
\* extends over (a byte inside a sequence is a continuation byte, and the
\* step from a continuation byte is 1)
Utf8Starts(b) ==
    {p \in 1..Len(b) :
        \A q \in (p - 3)..(p - 1) : q < 1 \/ q + Utf8Step(b, q).step <= p}

\* bytes.decode('utf-8', errors): an ill-formed maximal subpart becomes one
\* U+FFFD (65533) under 'replace' and raises under 'strict'.
\* Result: [err |-> "none" or the exception, val |-> the str]
Utf8Decode(b, errors) ==
    With(Utf8Starts(b), LAMBDA starts :
        IF errors # "replace" /\ \E p \in starts : ~Utf8Step(b, p).ok
        THEN [err |-> "UnicodeDecodeError", val |-> <<>>]
        ELSE [err |-> "none",
              val |-> Concat([p \in 1..Len(b) |->
                                 IF p \in starts THEN <<Utf8Step(b, p).cp>> ELSE <<>>])])

----------------------------------------------------------------------------
(* Character classes of the regex module for the code points the model     *)
(* uses: U+0000..U+00FF by Unicode general category, and U+1F600.          *)

\* \s : White_Space
IsSpace(c) == c \in (9..13) \cup {32, 133, 160}

\* \p{L}
IsLetter(c) == c \in (65..90) \cup (97..122) \cup {170, 181, 186}
                     \cup (192..214) \cup (216..246) \cup (248..255)

\* \p{N}
IsNumber(c) == c \in (48..57) \cup {178, 179, 185, 188, 189, 190}

\* [^\s\p{L}\p{N}]
IsOther(c) == ~IsSpace(c) /\ ~IsLetter(c) /\ ~IsNumber(c)

InClass(cls, c) ==
    IF cls = "L" THEN IsLetter(c)
    ELSE IF cls = "N" THEN IsNumber(c)
    ELSE IF cls = "s" THEN IsSpace(c)
    ELSE IsOther(c)

\* end of the longest run of characters of class cls starting at i (i itself
\* when s[i] is not in the class); positions are 1-based, the result is the
\* index after the run
RunEnd(s, i, cls) ==
    CHOOSE e \in i..(Len(s) + 1) :
        /\ \A k \in i..(e - 1) : InClass(cls, s[k])
        /\ e > Len(s) \/ ~InClass(cls, s[e])

----------------------------------------------------------------------------
(* self.pat (line 53).  Each alternative gives the index after its match   *)
(* at position i, or 0 when it does not match there.                        *)

\* a literal such as 's
MatchLit(s, i, lit) ==
    IF i + Len(lit) - 1 <= Len(s) /\ SubSeq(s, i, i + Len(lit) - 1) = lit
    THEN i + Len(lit) ELSE 0

\* ' ?CLASS+' : the optional space is taken when a class run follows it,
\* otherwise the run must start at i
MatchOptSpaceRun(s, i, P) ==
    With(IF i <= Len(s) /\ s[i] = 32 THEN RunEnd(s, i + 1, P) ELSE 0, LAMBDA e1 :
        IF e1 > i + 1 THEN e1
        ELSE With(RunEnd(s, i, P), LAMBDA e0 : IF e0 > i THEN e0 ELSE 0))

\* '\s+' in place of '\s+(?!\S)': the greedy run, nothing given back
MatchSpaceGreedy(s, i) ==
    With(RunEnd(s, i, "s"), LAMBDA e : IF e = i THEN 0 ELSE e)

\* '\s+(?!\S)' : the greedy run, given back one character at a time until
\* the position after it is the end of the string or a whitespace character
MatchSpaceNotBeforeWord(s, i) ==
    With(RunEnd(s, i, "s"), LAMBDA e :
        IF e = i THEN 0
        ELSE IF e > Len(s) THEN e
        ELSE IF e - 1 > i THEN e - 1
        ELSE 0)

\* '\s+'
MatchSpaceRun(s, i) ==
    With(RunEnd(s, i, "s"), LAMBDA e : IF e > i THEN e ELSE 0)

Contractions == << <<39, 115>>, <<39, 116>>, <<39, 114, 101>>, <<39, 118, 101>>,
                   <<39, 109>>, <<39, 108, 108>>, <<39, 100>> >>

\* the first contraction, in pattern order, that matches at i
RECURSIVE MatchContraction(_, _, _)
MatchContraction(s, i, k) ==
    IF k > Len(Contractions) THEN 0
    ELSE IF MatchLit(s, i, Contractions[k]) # 0 THEN i + Len(Contractions[k])
    ELSE MatchContraction(s, i, k + 1)

\* the pattern without its last alternative '\s+'
PatMatchNoSpaceRun(s, i) ==
    With(MatchContraction(s, i, 1), LAMBDA m1 : IF m1 # 0 THEN m1 ELSE
    With(MatchOptSpaceRun(s, i, "L"), LAMBDA m2 : IF m2 # 0 THEN m2 ELSE
    With(MatchOptSpaceRun(s, i, "N"), LAMBDA m3 : IF m3 # 0 THEN m3 ELSE
    With(MatchOptSpaceRun(s, i, "O"), LAMBDA m4 : IF m4 # 0 THEN m4 ELSE
    MatchSpaceNotBeforeWord(s, i)))))

\* the alternation: the first alternative that matches wins
PatMatch(s, i) ==
    With(MatchContraction(s, i, 1), LAMBDA m1 : IF m1 # 0 THEN m1 ELSE
    With(MatchOptSpaceRun(s, i, "L"), LAMBDA m2 : IF m2 # 0 THEN m2 ELSE
    With(MatchOptSpaceRun(s, i, "N"), LAMBDA m3 : IF m3 # 0 THEN m3 ELSE
    With(MatchOptSpaceRun(s, i, "O"), LAMBDA m4 : IF m4 # 0 THEN m4 ELSE
    With(MatchSpaceNotBeforeWord(s, i), LAMBDA m5 : IF m5 # 0 THEN m5 ELSE
    MatchSpaceRun(s, i))))))

\* findall for a pattern that also matches the empty string at the end of
\* the part ('\s*' in place of '\s+')
RECURSIVE FindAllEmptyAtEnd(_, _)
FindAllEmptyAtEnd(s, i) ==
    IF i > Len(s) THEN << <<>> >>
    ELSE With(PatMatch(s, i), LAMBDA e :
            IF e = 0 THEN FindAllEmptyAtEnd(s, i + 1)
            ELSE <<SubSeq(s, i, e - 1)>> \o FindAllEmptyAtEnd(s, e))

\* re.findall(self.pat, part) (line 110): non-overlapping matches, left to
\* right; a position where nothing matches is skipped
RECURSIVE FindAll(_, _)
FindAll(s, i) ==
    IF i > Len(s) THEN <<>>
    ELSE With(PatMatch(s, i), LAMBDA e :
            IF e = 0 THEN FindAll(s, i + 1)
            ELSE <<SubSeq(s, i, e - 1)>> \o FindAll(s, e))

----------------------------------------------------------------------------
(* str.split(sep) (lines 102, 112) and ' '.join (line 95) *)

\* index of the first occurrence of sep in s at or after i, 0 when none
Find(s, sep, i) ==
    With({j \in i..(Len(s) - Len(sep) + 1) :
             \A k \in 1..Len(sep) : s[j + k - 1] = sep[k]},
         LAMBDA found : IF found = {} THEN 0 ELSE Kth(found, 1))

\* s.split(sep): the pieces between non-overlapping occurrences found left
\* to right; always at least one piece
RECURSIVE SplitFrom(_, _, _)
SplitFrom(s, sep, i) ==
    With(Find(s, sep, i), LAMBDA j :
        IF j = 0 THEN <<SubSeq(s, i, Len(s))>>
        ELSE <<SubSeq(s, i, j - 1)>> \o SplitFrom(s, sep, j + Len(sep)))

Split(s, sep) == With(s, LAMBDA t : SplitFrom(t, sep, 1))

\* ' '.join(word)
JoinSpace(word) ==
    Concat([i \in 1..(2 * Len(word) - 1) |->
               IF i % 2 = 1 THEN word[(i + 1) \div 2] ELSE <<32>>])

\* '<|endoftext|>'
EndOfText == <<60, 124, 101, 110, 100, 111, 102, 116, 101, 120, 116, 124, 62>>

\* text.split('<|endoftext|>', 1): split at the first separator only
SplitPartsOnce(text) ==
    With(Find(text, EndOfText, 1), LAMBDA j :
        IF j = 0 THEN <<text>>
        ELSE <<SubSeq(text, 1, j - 1), SubSeq(text, j + Len(EndOfText), Len(text))>>)

\* text.split('<|endoftext|>') (line 102)
SplitParts(text) == Split(text, EndOfText)

----------------------------------------------------------------------------
(* get_pairs (lines 30-40) and Encoder.bpe (lines 58-99) *)

\* the set of adjacent symbol pairs of a non-empty word
get_pairs(word) == {<<word[i], word[i + 1]>> : i \in 1..(Len(word) - 1)}

\* dict(zip(bpe_merges, range(len(bpe_merges)))) (line 49)
RECURSIVE ZipRanks(_, _, _)
ZipRanks(merges, k, d) ==
    IF k > Len(merges) THEN d
    ELSE With(DictPut(d, merges[k], k - 1), LAMBDA d1 : ZipRanks(merges, k + 1, d1))

BuildRanks(merges) == With(merges, LAMBDA m : ZipRanks(m, 1, <<>>))

\* min(pairs, key = rank or inf) followed by the test of line 69: the ranked
\* pair of least rank, or <<>> when the minimum is an unranked pair
BestBigram(pairs, ranks) ==
    With({p \in pairs : DictHas(ranks, p)}, LAMBDA ranked :
        IF ranked = {} THEN <<>>
        ELSE CHOOSE p \in ranked :
                \A q \in ranked : DictGet(ranks, p) <= DictGet(ranks, q))

\* word.index(first, i): 1-based position of first at or after i, 0 if none
IndexFrom(word, first, i) ==
    With({j \in i..Len(word) : word[j] = first},
         LAMBDA found : IF found = {} THEN 0 ELSE Kth(found, 1))

\* a pass that copies the word and merges nothing
MergePassKeep(word, first, second, i) == SubSeq(word, i, Len(word))

\* a pass that merges the first occurrence of the pair only
MergePassOnce(word, first, second, i) ==
    With({j \in i..(Len(word) - 1) : word[j] = first /\ word[j + 1] = second},
         LAMBDA found :
            IF found = {} THEN SubSeq(word, i, Len(word))
            ELSE With(Kth(found, 1), LAMBDA j :
                    SubSeq(word, i, j - 1) \o <<first \o second>> \o
                    SubSeq(word, j + 2, Len(word))))

\* the inner while loop, lines 74-88, from position i on
RECURSIVE MergePass(_, _, _, _)
MergePass(word, first, second, i) ==
    IF i > Len(word) THEN <<>>
    ELSE With(IndexFrom(word, first, i), LAMBDA j :
            IF j = 0 THEN SubSeq(word, i, Len(word))
            ELSE SubSeq(word, i, j - 1) \o
                 (IF j < Len(word) /\ word[j + 1] = second
                  THEN <<first \o second>> \o MergePass(word, first, second, j + 2)
                  ELSE <<word[j]>> \o MergePass(word, first, second, j + 1)))

\* the outer while loop, lines 67-94
RECURSIVE MergeLoop(_, _)
MergeLoop(word, ranks) ==
    With(BestBigram(get_pairs(word), ranks), LAMBDA bigram :
        IF bigram = <<>> THEN word
        ELSE With(MergePass(word, bigram[1], bigram[2], 1), LAMBDA new_word :
                IF Len(new_word) = 1 THEN new_word
                ELSE MergeLoop(new_word, ranks)))

\* tuple(token[:-1]): the last character left out
ToWordNoLast(token) == [i \in 1..(Len(token) - 1) |-> <<token[i]>>]

\* tuple(token): one single-character symbol per character
ToWord(token) == [i \in 1..Len(token) |-> <<token[i]>>]

\* the capacity of the memo cache (line 97)
CacheCap == 1000

\* a cache that is never trimmed
EvictNever(c) == c

\* lines 97-98
RECURSIVE Evict(_)
Evict(c) == IF Len(c) > CacheCap THEN With(DictPopItem(c), LAMBDA c1 : Evict(c1)) ELSE c

\* bpe on a cache miss with at least two characters: lines 61-95
BpeCompute(token, ranks) ==
    With(ToWord(token), LAMBDA word0 :
    With(MergeLoop(word0, ranks), LAMBDA word : JoinSpace(word)))

\* the word stored before any merge was applied
CacheStoreUnmerged(c, token, word) == DictPut(c, token, JoinSpace(ToWord(token)))

\* the chunk itself stored in place of its merged word
CacheStoreToken(c, token, word) == DictPut(c, token, JoinSpace(<<token>>))

\* self.cache[token] = word (line 96)
CacheStore(c, token, word) == DictPut(c, token, word)

\* Encoder.bpe(token) against cache c.
\* Result: [err, val |-> the returned str, cache |-> the cache afterwards,
\*          hit |-> whether line 60 returned the cached value]
Bpe(token, c, ranks) ==
    IF DictHas(c, token)
    THEN [err |-> "none", val |-> DictGet(c, token), cache |-> c, hit |-> TRUE]
    ELSE IF Len(token) = 0
    THEN [err |-> "IndexError", val |-> <<>>, cache |-> c, hit |-> FALSE]
    ELSE IF Len(token) = 1
    THEN [err |-> "none", val |-> token, cache |-> c, hit |-> FALSE]
    ELSE With(BpeCompute(token, ranks), LAMBDA word :
         With(CacheStore(c, token, word), LAMBDA c1 :
            [err |-> "none", val |-> word, cache |-> Evict(c1), hit |-> FALSE]))

----------------------------------------------------------------------------
(* Encoder.encode (lines 101-113) and Encoder.decode (lines 115-118) *)

\* the UTF-8 bytes used as characters, without the byte table
ToSurrogatesRaw(token) == Utf8Encode(token)

\* ''.join(self.byte_encoder[b] for b in token.encode('utf-8')) (line 111)
ToSurrogates(token) ==
    With(Utf8Encode(token), LAMBDA b : [i \in 1..Len(b) |-> byte_encoder[b[i]]])

\* [d[k] for k in keys]: KeyError at the first missing key.
\* Result: [err, val |-> the values looked up]
LookupAll(d, keys) ==
    IF \E i \in 1..Len(keys) : ~DictHas(d, keys[i])
    THEN [err |-> "KeyError", val |-> <<>>]
    ELSE [err |-> "none", val |-> [i \in 1..Len(keys) |-> DictGet(d, keys[i])]]

\* the loop of lines 110-112 over the chunks of one part, from chunk k on.
\* st = [err, ids |-> bpe_tokens so far, cache, chunks |-> arguments given to
\*       bpe, hits |-> how many of them were cache hits]
\* lines 111-112 for one chunk
EncodeChunk(tok, st, enc, ranks) ==
    With(ToSurrogates(tok), LAMBDA token :
    With(Bpe(token, st.cache, ranks), LAMBDA r :
    With(IF r.err # "none" THEN [err |-> r.err, val |-> <<>>]
         ELSE With(Split(r.val, <<32>>), LAMBDA syms : LookupAll(enc, syms)),
         LAMBDA look :
            [err    |-> look.err,
             ids    |-> st.ids \o look.val,
             cache  |-> r.cache,
             chunks |-> Append(st.chunks, token),
             hits   |-> st.hits + (IF r.hit THEN 1 ELSE 0)])))

RECURSIVE EncodeChunks(_, _, _, _, _)
EncodeChunks(toks, k, st, enc, ranks) ==
    IF k > Len(toks) \/ st.err # "none" THEN st
    ELSE With(EncodeChunk(toks[k], st, enc, ranks),
              LAMBDA st1 : EncodeChunks(toks, k + 1, st1, enc, ranks))

\* 'if mid:' in place of 'if mid is not None:'
EmitMidTruthy(mid, st) ==
    IF mid # <<>> /\ mid[1] # 0 THEN [st EXCEPT !.ids = Append(@, mid[1])] ELSE st

\* lines 106-109: mid is <<>> for None and <<id>> once set
EmitMid(mid, st) == IF mid # <<>> THEN [st EXCEPT !.ids = Append(@, mid[1])] ELSE st

\* lines 106-112 for one part
EncodePart(part, mid, st, enc, ranks) ==
    With(FindAll(part, 1), LAMBDA toks :
    With(EmitMid(mid, st), LAMBDA st0 : EncodeChunks(toks, 1, st0, enc, ranks)))

\* the loop of lines 105-112 over the parts, from part k on; mid is <<>> in
\* the first iteration and <<self.encoder['<|endoftext|>']>> afterwards
RECURSIVE EncodeParts(_, _, _, _, _)
EncodeParts(parts, k, st, enc, ranks) ==
    IF k > Len(parts) \/ st.err # "none" THEN st
    ELSE IF k = 1 /\ ~DictHas(enc, EndOfText)
    THEN [st EXCEPT !.err = "KeyError"]
    ELSE With(EncodePart(parts[k], IF k = 1 THEN <<>> ELSE <<DictGet(enc, EndOfText)>>,
                         st, enc, ranks),
              LAMBDA st1 : EncodeParts(parts, k + 1, st1, enc, ranks))

\* Encoder.encode(text) against cache c.
\* Result: [err, ids, cache, chunks, hits]; ids is what the call returns when err is
\* "none", and nothing is returned otherwise
Encode(text, c, enc, ranks) ==
    With(SplitParts(text), LAMBDA parts :
    With(EncodeParts(parts, 1,
                     [err |-> "none", ids |-> <<>>, cache |-> c, chunks |-> <<>>,
                      hits |-> 0],
                     enc, ranks), LAMBDA st :
        IF st.err = "none" THEN st ELSE [st EXCEPT !.ids = <<>>]))

\* [f[k] for k in keys] for a function f: KeyError at a key outside DOMAIN f
FnLookupAll(f, keys) ==
    IF \E i \in 1..Len(keys) : keys[i] \notin DOMAIN f
    THEN [err |-> "KeyError", val |-> <<>>]
    ELSE [err |-> "none", val |-> [i \in 1..Len(keys) |-> f[keys[i]]]]

\* [self.decoder.get(token, '') for token in tokens]: an id the vocabulary
\* does not define gives the empty string
DecodeSymbolsDefault(dec, tokens) ==
    [err |-> "none",
     val |-> [i \in 1..Len(tokens) |->
                 IF tokens[i] \in DOMAIN dec THEN dec[tokens[i]] ELSE <<>>]]

\* [self.decoder[token] for token in tokens] (line 116)
DecodeSymbols(dec, tokens) == FnLookupAll(dec, tokens)

\* Encoder.decode(tokens).  Result: [err, val |-> the text]
Decode(tokens, dec, errors) ==
    With(DecodeSymbols(dec, tokens), LAMBDA syms :
        IF syms.err # "none" THEN syms
        ELSE With(Concat(syms.val), LAMBDA text :
             With(FnLookupAll(byte_decoder, text), LAMBDA bytes :
                IF bytes.err # "none" THEN bytes
                ELSE Utf8Decode(bytes.val, errors))))

----------------------------------------------------------------------------
(* Inputs: vocabularies, merge lists and texts *)

MaxPieces == 3      \* pieces per text, function specification
MaxCallPieces == 2  \* pieces per text, Encoder life-cycle specification
MaxCalls == 2       \* calls made on one Encoder
MaxIds == 2         \* length of an id sequence given to decode

\* '<|endoftext|' : the separator without its last character
SepHead == SubSeq(EndOfText, 1, Len(EndOfText) - 1)

\* a b space \n 1 ' s e-acute U+0001 U+1F600 and the separator, whole or in
\* two halves
AllPieces == { <<97>>, <<98>>, <<32>>, <<10>>, <<49>>, <<39>>, <<115>>, <<233>>,
               <<1>>, <<128512>>, EndOfText, SepHead, <<62>> }

SmallPieces == { <<97>>, <<98>>, <<32>>, EndOfText }

\* all concatenations of at most n pieces
RECURSIVE TextsOf(_, _)
TextsOf(P, n) ==
    IF n = 0 THEN {<<>>}
    ELSE LET T == TextsOf(P, n - 1) IN T \cup {t \o q : t \in T, q \in P}

\* the symbols first+second of the merge rules, without repetition
RECURSIVE MergedSymbols(_, _, _)
MergedSymbols(merges, k, acc) ==
    IF k > Len(merges) THEN acc
    ELSE With(merges[k][1] \o merges[k][2], LAMBDA sym :
         With(IF sym \in Range(acc) THEN acc ELSE Append(acc, sym), LAMBDA acc1 :
            MergedSymbols(merges, k + 1, acc1)))

\* a vocabulary with distinct ids: the 256 surrogate characters, the merged
\* symbols, and the separator with id sepId
FullVocab(merges, sepId) ==
    With([b \in 1..256 |-> <<byte_encoder[b - 1]>>] \o MergedSymbols(merges, 1, <<>>),
         LAMBDA syms :
            [i \in 1..(Len(syms) + 1) |->
                IF i <= Len(syms) THEN <<syms[i], IF i - 1 < sepId THEN i - 1 ELSE i>>
                ELSE <<EndOfText, sepId>>])

\* (a,a) (G,a) (aa,b) (A~,(c)) where G is the surrogate of the space
Merges1 == << <<<<97>>, <<97>>>>, <<<<288>>, <<97>>>>, <<<<97, 97>>, <<98>>>>,
              <<<<195>>, <<169>>>> >>

\* (G,b) (a,b) (b,a) (ab,a) (',s)
Merges2 == << <<<<288>>, <<98>>>>, <<<<97>>, <<98>>>>, <<<<98>>, <<97>>>>,
              <<<<97, 98>>, <<97>>>>, <<<<39>>, <<115>>>> >>

\* {"a":0, "Gb":1, "<|endoftext|>":2}
TinyVocab == << <<<<97>>, 0>>, <<<<288, 98>>, 1>>, <<EndOfText, 2>> >>

\* Encoder.__init__ (lines 44-50): the object built from a vocabulary and a
\* merge list
NewEncoder(enc, merges) ==
    With(enc, LAMBDA e :
        [encoder   |-> e,
         decoder   |-> InvertDict(e),
         bpe_ranks |-> BuildRanks(merges),
         cache     |-> <<>>])

\* the Encoders of the model, each with the pieces its texts are made of
Configs ==
    { [obj |-> NewEncoder(FullVocab(Merges1, 0), Merges1),     pieces |-> AllPieces],
      [obj |-> NewEncoder(FullVocab(Merges2, 50256), Merges2), pieces |-> AllPieces],
      [obj |-> NewEncoder(TinyVocab, <<>>),                    pieces |-> SmallPieces],
      [obj |-> NewEncoder(TinyVocab, << <<<<288>>, <<98>>>> >>),
       pieces |-> SmallPieces] }

\* arguments of direct bpe calls: aa aab Gaab a Gb aba and the empty string
BpeTokens == { <<97, 97>>, <<97, 97, 98>>, <<288, 97, 97, 98>>, <<97>>,
               <<288, 98>>, <<97, 98, 97>>, <<>> }

\* ids given to decode: two that every vocabulary defines, one that only the
\* large vocabularies define (there the surrogate of a UTF-8 lead byte), and
\* one that none defines
DecodeIds == {0, 1, 196, 999999}

RECURSIVE SeqsUpTo(_, _)
SeqsUpTo(S, n) ==
    IF n = 0 THEN {<<>>}
    ELSE LET T == SeqsUpTo(S, n - 1) IN T \cup {Append(t, x) : t \in T, x \in S}

----------------------------------------------------------------------------
(* The Encoder object *)

\* errors='replace' (line 43)
errors == "replace"

NoOutput == [err |-> "none", val |-> <<>>, chunks |-> <<>>, hits |-> 0]

\* the state after Encoder.__init__ (lines 43-56)
Init ==
    /\ \E cfg \in Configs :
          /\ encoder = cfg.obj.encoder
          /\ decoder = cfg.obj.decoder
          /\ bpe_ranks = cfg.obj.bpe_ranks
          /\ cache = cfg.obj.cache
    /\ input = <<>>
    /\ output = NoOutput
    /\ pc = "ready"
    /\ budget = MaxCalls
    /\ factory = <<>>
    /\ NoThreads

Callable == pc \in {"ready", "encode", "decode", "bpe"} /\ budget > 0

\* a call of encode(text)
CallEncode ==
    /\ Callable
    /\ \E text \in TextsOf(SmallPieces, MaxCallPieces) :
          \E r \in {Encode(text, cache, encoder, bpe_ranks)} :
              /\ input' = text
              /\ output' = [err |-> r.err, val |-> r.ids, chunks |-> r.chunks,
                            hits |-> r.hits]
              /\ cache' = r.cache
    /\ pc' = "encode"
    /\ budget' = budget - 1
    /\ UNCHANGED <<encoder, decoder, bpe_ranks, factory, threads, lock>>

\* a call of decode(tokens)
CallDecode ==
    /\ Callable
    /\ \E tokens \in SeqsUpTo(DecodeIds, MaxIds) :
          \E r \in {Decode(tokens, decoder, errors)} :
              /\ input' = tokens
              /\ output' = [err |-> r.err, val |-> r.val, chunks |-> <<>>, hits |-> 0]
    /\ pc' = "decode"
    /\ budget' = budget - 1
    /\ UNCHANGED <<encoder, decoder, bpe_ranks, cache, factory, threads, lock>>

\* a direct call of bpe(token)
CallBpe ==
    /\ Callable
    /\ \E token \in BpeTokens :
          \E r \in {Bpe(token, cache, bpe_ranks)} :
              /\ input' = token
              /\ output' = [err |-> r.err, val |-> r.val, chunks |-> <<>>,
                            hits |-> IF r.hit THEN 1 ELSE 0]
              /\ cache' = r.cache
    /\ pc' = "bpe"
    /\ budget' = budget - 1
    /\ UNCHANGED <<encoder, decoder, bpe_ranks, factory, threads, lock>>

Next == CallEncode \/ CallDecode \/ CallBpe

Spec == Init /\ [][Next]_vars

----------------------------------------------------------------------------
(* encode and decode as functions of their argument, on a fresh Encoder *)

FnInit ==
    /\ \E cfg \in Configs :
          /\ encoder = cfg.obj.encoder
          /\ decoder = cfg.obj.decoder
          /\ bpe_ranks = cfg.obj.bpe_ranks
          /\ cache = cfg.obj.cache
          /\ \/ pc = "text" /\ input \in TextsOf(cfg.pieces, MaxPieces)
             \/ pc = "ids"  /\ input \in SeqsUpTo(DecodeIds, MaxIds)
    /\ output = NoOutput
    /\ budget = 2
    /\ factory = <<>>
    /\ NoThreads

\* ids = encode(text)
FnEncode ==
    /\ pc = "text"
    /\ \E r \in {Encode(input, cache, encoder, bpe_ranks)} :
           /\ output' = [err |-> r.err, val |-> r.ids, chunks |-> r.chunks,
                         hits |-> r.hits]
           /\ cache' = r.cache
    /\ pc' = "encoded"
    /\ budget' = budget - 1
    /\ UNCHANGED <<encoder, decoder, bpe_ranks, input, factory, threads, lock>>

\* decode(ids) of the ids encode just returned
FnDecode ==
    /\ pc = "encoded"
    /\ output.err = "none"
    /\ \E r \in {Decode(output.val, decoder, errors)} :
           output' = [err |-> r.err, val |-> r.val, chunks |-> <<>>, hits |-> 0]
    /\ pc' = "decoded"
    /\ budget' = budget - 1
    /\ UNCHANGED <<encoder, decoder, bpe_ranks, cache, input, factory, threads, lock>>

\* decode(ids) of given ids
FnDecodeIds ==
    /\ pc = "ids"
    /\ \E r \in {Decode(input, decoder, errors)} :
           output' = [err |-> r.err, val |-> r.val, chunks |-> <<>>, hits |-> 0]
    /\ pc' = "decodedIds"
    /\ budget' = budget - 1
    /\ UNCHANGED <<encoder, decoder, bpe_ranks, cache, input, factory, threads, lock>>

FnNext == FnEncode \/ FnDecode \/ FnDecodeIds

SpecFn == FnInit /\ [][FnNext]_vars

----------------------------------------------------------------------------
(* the byte table as a function of the byte *)

ByteInit ==
    /\ input \in 0..255
    /\ pc = "byte"
    /\ output = 0
    /\ encoder = <<>> /\ decoder = <<>> /\ bpe_ranks = <<>> /\ cache = <<>>
    /\ budget = 2
    /\ factory = <<>>
    /\ NoThreads

\* self.byte_encoder[b]
ToChar ==
    /\ pc = "byte"
    /\ output' = byte_encoder[input]
    /\ pc' = "char"
    /\ budget' = budget - 1
    /\ UNCHANGED <<encoder, decoder, bpe_ranks, cache, input, factory, threads, lock>>

\* self.byte_decoder[c]
ToByte ==
    /\ pc = "char"
    /\ output' = byte_decoder[output]
    /\ pc' = "byteAgain"
    /\ budget' = budget - 1
    /\ UNCHANGED <<encoder, decoder, bpe_ranks, cache, input, factory, threads, lock>>

ByteNext == ToChar \/ ToByte

SpecBytes == ByteInit /\ [][ByteNext]_vars

----------------------------------------------------------------------------
(* an Encoder whose cache is close to its capacity *)

MaxCacheCalls == 2  \* calls made on the nearly full Encoder
PrefillSlack == 1   \* how far below capacity the cache may start

\* the k-th of the chunks bpe was called with before (k from 0): two
\* surrogates of control bytes
FillerToken(k) == <<256 + (k \div 32), 289 + (k % 32)>>

\* the cache after bpe calls on the first n filler chunks
Prefilled(n, ranks) ==
    [k \in 1..n |-> <<FillerToken(k - 1), BpeCompute(FillerToken(k - 1), ranks)>>]

CacheInit ==
    /\ \E cfg \in {c \in Configs : c.obj.bpe_ranks = BuildRanks(Merges1)} :
          /\ encoder = cfg.obj.encoder
          /\ decoder = cfg.obj.decoder
          /\ bpe_ranks = cfg.obj.bpe_ranks
          /\ \E n \in (CacheCap - PrefillSlack)..CacheCap :
                cache = Prefilled(n, cfg.obj.bpe_ranks)
    /\ input = <<>>
    /\ output = NoOutput
    /\ pc = "ready"
    /\ budget = MaxCacheCalls
    /\ factory = <<>>
    /\ NoThreads

CacheNext == CallEncode \/ CallBpe

SpecCache == CacheInit /\ [][CacheNext]_vars

----------------------------------------------------------------------------
(* get_encoder (lines 250-265) and the constructors it calls.  factory[p] is  *)
(* the state of one process that has imported the module:                     *)
(*   highSpeed   use_high_speed_tokenizer, set by the import of lines 120-127 *)
(*   name        the model name given to get_encoder                          *)
(*   vocabFile   whether models/<name>/encoder.json is a file                 *)
(*   mergesFile  whether models/<name>/vocab.bpe is a file                    *)
(*   hasSep      whether the vocabulary in encoder.json has '<|endoftext|>'   *)
(*   backend     the class get_encoder went on to build, "none" before a call *)
(*   err         the exception get_encoder raised, "none" if it returned      *)

Procs == {1, 2}

ModelNames == {"117M", "custom"}

\* the names whose two paths are in the lists of lines 131-141
PretrainedNames == {"117M", "345M", "774M", "1558M"}

\* the branch get_encoder takes, keyed on content: the whitespace backend
\* only for a vocabulary without the separator
SelectBackendByContent(f) ==
    IF ~f.mergesFile /\ f.vocabFile /\ ~f.hasSep THEN "SpaceSeparatedTokenizer"
    ELSE IF f.highSpeed THEN "HighSpeedTokenizer"
    ELSE "Encoder"

\* the branch get_encoder takes (lines 253-262)
SelectBackend(f) ==
    IF ~f.mergesFile /\ f.vocabFile THEN "SpaceSeparatedTokenizer"
    ELSE IF f.highSpeed THEN "HighSpeedTokenizer"
    ELSE "Encoder"

\* HighSpeedTokenizer.__init__ (lines 130-179): BPE is not a name of the
\* module, so line 146 raises NameError
HighSpeedInit(f) ==
    IF f.name \notin PretrainedNames THEN "NameError"
    ELSE IF ~f.vocabFile THEN "FileNotFoundError"
    ELSE IF ~f.hasSep THEN "ValueError"
    ELSE "none"

\* SpaceSeparatedTokenizer.__init__ (lines 219-222)
SpaceSeparatedInit(f) == IF ~f.vocabFile THEN "FileNotFoundError" ELSE "none"

\* lines 257-265: the two files are read, then Encoder.__init__ checks the
\* separator (lines 55-56)
ReferenceInit(f) ==
    IF ~f.vocabFile \/ ~f.mergesFile THEN "FileNotFoundError"
    ELSE IF ~f.hasSep THEN "ValueError"
    ELSE "none"

\* get_encoder(name) in the process state f: the backend and the outcome
get_encoder(f) ==
    LET b == SelectBackend(f)
    IN  [backend |-> b,
         err |-> IF b = "SpaceSeparatedTokenizer" THEN SpaceSeparatedInit(f)
                 ELSE IF b = "HighSpeedTokenizer" THEN HighSpeedInit(f)
                 ELSE ReferenceInit(f)]

FactoryInit ==
    /\ factory \in [Procs -> [highSpeed : BOOLEAN, name : ModelNames,
                              vocabFile : BOOLEAN, mergesFile : BOOLEAN,
                              hasSep : BOOLEAN,
                              backend : {"none"}, err : {"none"}]]
    /\ \A p \in Procs : factory[p].hasSep => factory[p].vocabFile
    /\ encoder = <<>> /\ decoder = <<>> /\ bpe_ranks = <<>> /\ cache = <<>>
    /\ input = <<>>
    /\ output = NoOutput
    /\ pc = "factory"
    /\ budget = 1
    /\ NoThreads

\* process p calls get_encoder(name)
GetEncoder ==
    /\ pc = "factory"
    /\ \E p \in Procs :
          /\ factory[p].backend = "none"
          /\ \E r \in {get_encoder(factory[p])} :
                 factory' = [factory EXCEPT ![p].backend = r.backend,
                                            ![p].err = r.err]
    /\ UNCHANGED <<encoder, decoder, bpe_ranks, cache, input, output, pc, budget,
                   threads, lock>>

FactoryNext == GetEncoder

SpecFactory == FactoryInit /\ [][FactoryNext]_vars

----------------------------------------------------------------------------
(* Properties *)

\* the vocabulary has distinct ids and holds the separator, the 256
\* surrogate characters and first+second of every merge rule
CompleteVocab ==
    LET keys == {encoder[i][1] : i \in 1..Len(encoder)}
    IN  /\ Cardinality(DOMAIN decoder) = Len(encoder)
        /\ EndOfText \in keys
        /\ \A b \in 0..255 : <<byte_encoder[b]>> \in keys
        /\ \A i \in 1..Len(bpe_ranks) :
              bpe_ranks[i][1][1] \o bpe_ranks[i][1][2] \in keys

SepId == DictGet(encoder, EndOfText)

\* the positions where the separator occurs in s
SepAt(s) == {k \in 1..Len(s) : MatchLit(s, k, EndOfText) # 0}

\* encode on an Encoder with an empty cache
FreshEncode(text) == Encode(text, <<>>, encoder, bpe_ranks)

\* C1: with a complete vocabulary, encode succeeds on every text and
\* decoding the ids it returns gives the text back
C1_RoundTrip ==
    CompleteVocab =>
        /\ pc = "encoded" => output.err = "none"
        /\ pc = "decoded" => output.err = "none" /\ output.val = input

\* e-acute, separator, newline went through encode and decode
C1_Witness ==
    /\ pc = "decoded"
    /\ CompleteVocab
    /\ input = <<233>> \o EndOfText \o <<10>>
    /\ output.val = input

\* C2: for every way of writing the text as a + separator + b, the ids are
\* encode(a), the separator id, encode(b); the parts given to the pattern and
\* the chunks given to bpe are those of a followed by those of b; encode
\* fails exactly when encode(a) or encode(b) does
C2_SeparatorAtomic ==
    pc = "encoded" =>
        \A k \in SepAt(input) :
            LET a  == SubSeq(input, 1, k - 1)
                b  == SubSeq(input, k + Len(EndOfText), Len(input))
                ea == FreshEncode(a)
                eb == FreshEncode(b)
            IN  /\ SplitParts(input) = SplitParts(a) \o SplitParts(b)
                /\ (ea.err = "none" /\ eb.err = "none") =>
                      /\ output.err = "none"
                      /\ output.val = ea.ids \o <<SepId>> \o eb.ids
                      /\ output.chunks = ea.chunks \o eb.chunks
                /\ (ea.err # "none" \/ eb.err # "none") => output.err # "none"

\* a separator between the first twelve characters of a separator and '>'
C2_Witness ==
    /\ pc = "encoded"
    /\ input = SepHead \o EndOfText \o <<62>>
    /\ output.err = "none"
    /\ Len(output.chunks) = 4
    /\ SepAt(input) = {13}

\* the ids of the fragments from the k-th on, a separator id before each
\* fragment but the first
RECURSIVE FragmentIds(_, _)
FragmentIds(parts, k) ==
    IF k > Len(parts) THEN <<>>
    ELSE (IF k > 1 THEN <<SepId>> ELSE <<>>)
         \o FreshEncode(parts[k]).ids \o FragmentIds(parts, k + 1)

CountOf(x, seq) == Cardinality({i \in 1..Len(seq) : seq[i] = x})

\* C3: the ids of a text of N fragments are the ids of the fragments with
\* one separator id between consecutive fragments, N-1 in all
C3_SeparatorCount ==
    (pc = "encoded" /\ output.err = "none") =>
        LET parts == SplitParts(input)
        IN  /\ output.val = FragmentIds(parts, 1)
            /\ CountOf(SepId, output.val) = Len(parts) - 1

\* separator id 0, a text that starts with two adjacent separators
C3_Witness ==
    /\ pc = "encoded"
    /\ SepId = 0
    /\ input = EndOfText \o EndOfText \o <<97>>
    /\ output.err = "none"
    /\ output.val = <<0, 0, 98>>

\* C4: a byte taken to its surrogate and back is the same byte, no other
\* byte has the same surrogate, and there are 256 surrogates
C4_ByteBijection ==
    /\ pc = "char" => \A b \in 0..255 : b # input => byte_encoder[b] # output
    /\ pc = "byteAgain" => output = input
    /\ pc \in {"byte", "char", "byteAgain"} => Cardinality(DOMAIN byte_decoder) = 256

\* the space went to code point 288 and back
C4_Witness ==
    /\ pc = "byteAgain"
    /\ input = 32
    /\ output = 32
    /\ byte_encoder[32] = 288

AText == <<97, 32, 98>>      \* "a b"

\* C5 as stated: with the three-entry vocabulary and no merge rule,
\* encode("a b") is [0, 1] and decode([0, 1]) is "a b"
C5_AsStated ==
    (encoder = TinyVocab /\ bpe_ranks = <<>>) =>
        /\ (pc = "encoded" /\ input = AText) =>
              output.err = "none" /\ output.val = <<0, 1>>
        /\ (pc = "decodedIds" /\ input = <<0, 1>>) =>
              output.err = "none" /\ output.val = AText

\* C5 amended: with the three-entry vocabulary, decode([0, 1]) is "a b";
\* encode("a b") fails on a vocabulary lookup when there is no merge rule
\* and is [0, 1] when the merge list is the single rule (G, b)
C5_Scenario ==
    encoder = TinyVocab =>
        /\ (pc = "encoded" /\ input = AText /\ bpe_ranks = <<>>) =>
              output.err = "KeyError" /\ output.val = <<>>
        /\ (pc = "encoded" /\ input = AText /\ bpe_ranks # <<>>) =>
              output.err = "none" /\ output.val = <<0, 1>>
        /\ (pc = "decodedIds" /\ input = <<0, 1>>) =>
              output.err = "none" /\ output.val = AText

\* encode("a b") was called on the Encoder without merge rules
C5_Witness ==
    /\ pc = "encoded"
    /\ encoder = TinyVocab
    /\ bpe_ranks = <<>>
    /\ input = AText
    /\ output.err = "KeyError"

\* the symbols bpe produced for the chunks it was given
ProducedSymbols(chunks) ==
    UNION {Range(Split(Bpe(chunks[i], <<>>, bpe_ranks).val, <<32>>)) :
              i \in 1..Len(chunks)}

\* C6: decode of ids with an id outside the vocabulary fails and returns
\* nothing; encode fails and returns nothing when bpe produced a symbol
\* outside the vocabulary
C6_LookupMissFails ==
    /\ (pc = "decodedIds" /\ \E i \in 1..Len(input) : input[i] \notin DOMAIN decoder) =>
          output.err = "KeyError" /\ output.val = <<>>
    /\ (pc = "encoded" /\ \E sym \in ProducedSymbols(output.chunks) :
                              ~DictHas(encoder, sym)) =>
          output.err = "KeyError" /\ output.val = <<>>

\* decode([0, 999999]) was called
C6_Witness ==
    /\ pc = "decodedIds"
    /\ input = <<0, 999999>>
    /\ 0 \in DOMAIN decoder
    /\ output.err = "KeyError"

\* C7: encode("") returns no id, hands nothing to bpe and leaves the cache
\* empty; decode of no ids returns the empty string
C7_EmptyBoundary ==
    /\ (pc = "encoded" /\ input = <<>>) =>
          output = NoOutput /\ cache = <<>>
    /\ (pc \in {"decoded", "decodedIds"} /\ input = <<>>) =>
          output.err = "none" /\ output.val = <<>>

\* decode([]) after encode("")
C7_Witness ==
    /\ pc = "decoded"
    /\ input = <<>>
    /\ output.val = <<>>

\* C8: bpe returns what a computation with an empty cache returns, encode
\* returns what an Encoder with an empty cache returns, and every cached
\* value is the value computed for its key
C8_CacheTransparent ==
    /\ pc = "bpe" =>
          /\ output.err = Bpe(input, <<>>, bpe_ranks).err
          /\ output.val = Bpe(input, <<>>, bpe_ranks).val
    /\ pc = "encode" =>
          /\ output.err = FreshEncode(input).err
          /\ output.val = FreshEncode(input).ids
    /\ \A i \in 1..Len(cache) : cache[i][2] = BpeCompute(cache[i][1], bpe_ranks)

\* bpe("aab") answered from the cache with the merged symbol aab
C8_Witness ==
    /\ pc = "bpe"
    /\ output.hits = 1
    /\ input = <<97, 97, 98>>
    /\ output.val = <<97, 97, 98>>

\* C9: the cache never holds more than 1000 entries
C9_CacheBound == Len(cache) <= CacheCap

\* a bpe call computed a chunk while the cache was full: the cache is still
\* at capacity and the chunk is not in it
C9_Witness ==
    /\ pc = "bpe"
    /\ Len(input) >= 2
    /\ output.hits = 0
    /\ Len(cache) = CacheCap
    /\ ~DictHas(cache, input)

\* both processes have called get_encoder with the same name and the same
\* presence of the two files
SameFiles(p, q) ==
    /\ factory[p].backend # "none" /\ factory[q].backend # "none"
    /\ factory[p].name = factory[q].name
    /\ factory[p].vocabFile = factory[q].vocabFile
    /\ factory[p].mergesFile = factory[q].mergesFile

\* C10 as stated: two calls that agree on the presence of the two files
\* select the same backend
C10_AsStated ==
    pc = "factory" =>
        \A p, q \in Procs : SameFiles(p, q) => factory[p].backend = factory[q].backend

\* C10 amended: two calls that agree on the presence of the two files and on
\* use_high_speed_tokenizer select the same backend, whatever the files hold
C10_BackendByFilesAndImport ==
    pc = "factory" =>
        \A p, q \in Procs :
            (SameFiles(p, q) /\ factory[p].highSpeed = factory[q].highSpeed) =>
                factory[p].backend = factory[q].backend

\* two calls with only encoder.json present, one vocabulary with the
\* separator and one without: both select the whitespace backend
C10_Witness ==
    /\ pc = "factory"
    /\ SameFiles(1, 2)
    /\ factory[1].highSpeed = factory[2].highSpeed
    /\ factory[1].vocabFile /\ ~factory[1].mergesFile
    /\ factory[1].hasSep /\ ~factory[2].hasSep
    /\ factory[1].backend = "SpaceSeparatedTokenizer"
    /\ factory[2].backend = "SpaceSeparatedTokenizer"

----------------------------------------------------------------------------
(* C11: a vocabulary without the separator *)

\* C11 as stated: whichever backend get_encoder selects, construction from a
\* vocabulary file without the key '<|endoftext|>' ends in an error, so no
\* tokenizer object exists for such a vocabulary
C11_AsStated ==
    pc = "factory" =>
        \A p \in Procs :
            (factory[p].backend # "none" /\ factory[p].vocabFile /\ ~factory[p].hasSep)
                => factory[p].err # "none"

----------------------------------------------------------------------------
(* Encoder.bpe (lines 58-99) one step at a time.  threads[t] holds the      *)
(* position of thread t inside bpe and its locals; the cache is shared.     *)
(* lock.on says whether the callers wrap each bpe call in one lock, and     *)
(* lock.holder is the thread inside (0: none).                              *)

MaxBpeCalls == 2    \* calls of bpe one thread makes, one after the other
MaxWord == 4        \* characters of a chunk given to bpe

\* a thread about to call bpe(tok), with n calls left to make
NewCall(tok, n) ==
    [pc |-> "idle", token |-> tok, word |-> <<>>, val |-> <<>>, err |-> "none",
     hit |-> FALSE, popped |-> 0, calls |-> n]

\* the thread leaves bpe: with a value (lines 60, 65, 99) or an exception
Leave(th, e, v) == [th EXCEPT !.pc = "done", !.err = e, !.val = v]

Unlock(t) == IF lock.on /\ lock.holder = t THEN [lock EXCEPT !.holder = 0] ELSE lock

ThreadIds == {1, 2}

\* thread t is a thread of the model; a step inside bpe touches only the
\* thread, the cache and the lock
InBpe(t) ==
    /\ pc = "bpeSteps"
    /\ t \in DOMAIN threads
    /\ UNCHANGED <<encoder, decoder, bpe_ranks, input, output, pc, budget, factory>>

\* the call itself; under a lock, the caller takes it first
BpeCall(t) ==
    /\ InBpe(t)
    /\ threads[t].pc \in {"idle", "done"}
    /\ threads[t].calls > 0
    /\ lock.on => lock.holder = 0
    /\ lock' = IF lock.on THEN [lock EXCEPT !.holder = t] ELSE lock
    /\ threads' = [threads EXCEPT ![t] =
                      [NewCall(threads[t].token, threads[t].calls - 1)
                          EXCEPT !.pc = "test"]]
    /\ UNCHANGED cache

\* line 59: token in self.cache
BpeTest(t) ==
    /\ InBpe(t)
    /\ threads[t].pc = "test"
    /\ \E h \in {DictHas(cache, threads[t].token)} :
          threads' = [threads EXCEPT ![t].hit = h,
                                     ![t].pc = IF h THEN "read" ELSE "tuple"]
    /\ UNCHANGED <<cache, lock>>

\* line 60: return self.cache[token]
BpeRead(t) ==
    /\ InBpe(t)
    /\ threads[t].pc = "read"
    /\ threads' = [threads EXCEPT ![t] =
                      IF DictHas(cache, threads[t].token)
                      THEN Leave(@, "none", DictGet(cache, threads[t].token))
                      ELSE Leave(@, "KeyError", <<>>)]
    /\ lock' = Unlock(t)
    /\ UNCHANGED cache

\* lines 61-65: word = tuple(token); get_pairs reads word[0]; a word of one
\* symbol has no pairs and is returned as it is
BpeTuple(t) ==
    /\ InBpe(t)
    /\ threads[t].pc = "tuple"
    /\ IF Len(threads[t].token) = 0
       THEN /\ threads' = [threads EXCEPT ![t] = Leave(@, "IndexError", <<>>)]
            /\ lock' = Unlock(t)
       ELSE IF Len(threads[t].token) = 1
       THEN /\ threads' = [threads EXCEPT ![t] = Leave(@, "none", threads[t].token)]
            /\ lock' = Unlock(t)
       ELSE /\ threads' = [threads EXCEPT ![t].word = ToWord(threads[t].token),
                                          ![t].pc = "loop"]
            /\ UNCHANGED lock
    /\ UNCHANGED cache

\* one iteration of the while loop, lines 67-94: break when the best pair is
\* not ranked, otherwise one merge pass, and break when one symbol is left
BpePass(t) ==
    /\ InBpe(t)
    /\ threads[t].pc = "loop"
    /\ \E bigram \in {BestBigram(get_pairs(threads[t].word), bpe_ranks)} :
          IF bigram = <<>>
          THEN threads' = [threads EXCEPT ![t].pc = "join"]
          ELSE \E new_word \in {MergePass(threads[t].word, bigram[1], bigram[2], 1)} :
                  threads' = [threads EXCEPT
                                 ![t].word = new_word,
                                 ![t].pc = IF Len(new_word) = 1 THEN "join" ELSE "loop"]
    /\ UNCHANGED <<cache, lock>>

\* lines 95-96: word = ' '.join(word); self.cache[token] = word
BpeStore(t) ==
    /\ InBpe(t)
    /\ threads[t].pc = "join"
    /\ \E word \in {JoinSpace(threads[t].word)} :
          /\ threads' = [threads EXCEPT ![t].val = word, ![t].pc = "size"]
          /\ cache' = CacheStore(cache, threads[t].token, word)
    /\ UNCHANGED lock

\* line 97: while len(self.cache) > 1000; line 99: return word
BpeSize(t) ==
    /\ InBpe(t)
    /\ threads[t].pc = "size"
    /\ IF Len(cache) > CacheCap
       THEN /\ threads' = [threads EXCEPT ![t].pc = "pop"]
            /\ UNCHANGED lock
       ELSE /\ threads' = [threads EXCEPT ![t] = Leave(@, "none", threads[t].val)]
            /\ lock' = Unlock(t)
    /\ UNCHANGED cache

\* line 98: self.cache.popitem(); the cache held more than CacheCap entries
\* at line 97 and each thread pops once per test, so it is not empty here
BpePop(t) ==
    /\ InBpe(t)
    /\ threads[t].pc = "pop"
    /\ cache # <<>>
    /\ threads' = [threads EXCEPT ![t].popped = @ + 1, ![t].pc = "size"]
    /\ cache' = DictPopItem(cache)
    /\ UNCHANGED lock

BpeStep(t) ==
    \/ BpeCall(t) \/ BpeTest(t) \/ BpeRead(t) \/ BpeTuple(t)
    \/ BpePass(t) \/ BpeStore(t) \/ BpeSize(t) \/ BpePop(t)

BpeNext ==
    \/ \E t \in ThreadIds : BpeCall(t)
    \/ \E t \in ThreadIds : BpeTest(t)
    \/ \E t \in ThreadIds : BpeRead(t)
    \/ \E t \in ThreadIds : BpeTuple(t)
    \/ \E t \in ThreadIds : BpePass(t)
    \/ \E t \in ThreadIds : BpeStore(t)
    \/ \E t \in ThreadIds : BpeSize(t)
    \/ \E t \in ThreadIds : BpePop(t)

\* a merge list that names the pair (a,b) twice: (a,b) (b,c) (a,b)
DupMerges == << <<<<97>>, <<98>>>>, <<<<98>>, <<99>>>>, <<<<97>>, <<98>>>> >>

BpeMergeLists == {DupMerges, Merges1, Merges2, <<>>}

\* the chunks given to bpe: the words over a b c
BpeWords == SeqsUpTo({97, 98, 99}, MaxWord)

\* an Encoder built from a merge list (input.bpe_merges keeps the list the
\* constructor was given), with an empty or a full cache, and one thread
\* that calls bpe on one chunk, MaxBpeCalls times
BpeInit ==
    /\ \E merges \in BpeMergeLists :
          \E obj \in {NewEncoder(TinyVocab, merges)} :
             /\ encoder = obj.encoder
             /\ decoder = obj.decoder
             /\ bpe_ranks = obj.bpe_ranks
             /\ \E c \in {obj.cache, Prefilled(CacheCap, obj.bpe_ranks)} :
                   /\ cache = c
                   /\ \E token \in BpeWords :
                         /\ input = [bpe_merges |-> merges, token |-> token]
                         /\ threads = [t \in {1} |-> NewCall(token, MaxBpeCalls)]
    /\ lock = NoLock
    /\ output = NoOutput
    /\ pc = "bpeSteps"
    /\ budget = 0
    /\ factory = <<>>

SpecBpe == BpeInit /\ [][BpeNext]_vars

\* every call the scheduler can run is eventually run
SpecBpeLive == SpecBpe /\ \A t \in {1} : WF_vars(BpeStep(t))

----------------------------------------------------------------------------
(* C12: a merge list that names a pair twice *)

\* the 1-based position of the first occurrence of pair p in a merge list
FirstIndex(merges, p) == Kth({i \in 1..Len(merges) : merges[i] = p}, 1)

\* C12 as stated: whenever bpe looks for the pair to merge, the rank it has
\* for each adjacent pair that the merge list names is the zero-based
\* position of that pair's first occurrence in the list.
C12_AsStated ==
    pc = "bpeSteps" =>
        \A t \in DOMAIN threads :
            threads[t].pc = "loop" =>
                \A p \in get_pairs(threads[t].word) :
                    (\E i \in 1..Len(input.bpe_merges) : input.bpe_merges[i] = p)
                        => /\ DictHas(bpe_ranks, p)
                           /\ DictGet(bpe_ranks, p) = FirstIndex(input.bpe_merges, p) - 1

----------------------------------------------------------------------------
(* The reference path of get_encoder, lines 257-265: the merge file *)

MaxRules == 3       \* rule lines of a merge file

\* str.isspace() of one character
IsPySpace(c) ==
    c \in (9..13) \cup (28..32) \cup {133, 160, 5760, 8232, 8233, 8239, 8287, 12288}
          \cup (8192..8202)

\* str.split() without arguments: the maximal runs of non-whitespace
SplitWhitespace(s) ==
    With({i \in 1..Len(s) : ~IsPySpace(s[i]) /\ (i = 1 \/ IsPySpace(s[i - 1]))},
         LAMBDA starts :
            [k \in 1..Cardinality(starts) |->
                With(Kth(starts, k), LAMBDA i :
                    SubSeq(s, i, (CHOOSE e \in i..Len(s) :
                                     /\ \A j \in i..e : ~IsPySpace(s[j])
                                     /\ e = Len(s) \/ IsPySpace(s[e + 1])))) ])

\* line 261: [tuple(merge_str.split()) for merge_str in bpe_data.split('\n')[1:-1]]
LoadMerges(bpe_data) ==
    With(Split(bpe_data, <<10>>), LAMBDA lines :
        With(SubSeq(lines, 2, Len(lines) - 1), LAMBDA rule_lines :
            [i \in 1..Len(rule_lines) |-> SplitWhitespace(rule_lines[i])]))

\* the rules of the files: (a,b) (b,c) (ab,c) (a,a)
FileRules == { <<<<97>>, <<98>>>>, <<<<98>>, <<99>>>>, <<<<97, 98>>, <<99>>>>,
               <<<<97>>, <<97>>>> }

\* the header line "#v"
HeaderLine == <<35, 118>>

\* the text of a merge file: the header line, then one line "left right" per
\* rule, lines separated by '\n', with or without a '\n' after the last line
FileText(rules, finalNewline) ==
    Concat([i \in 1..(Len(rules) + 2) |->
               IF i = 1 THEN HeaderLine
               ELSE IF i <= Len(rules) + 1
               THEN <<10>> \o rules[i - 1][1] \o <<32>> \o rules[i - 1][2]
               ELSE IF finalNewline THEN <<10>> ELSE <<>>])

\* before get_encoder: models/<name>/vocab.bpe holds input.bpe_data, written
\* from the rules input.rules, and encoder.json holds TinyVocab
LoadInit ==
    /\ \E rules \in SeqsUpTo(FileRules, MaxRules) : \E nl \in BOOLEAN :
          input = [rules |-> rules, finalNewline |-> nl,
                   bpe_data |-> FileText(rules, nl)]
    /\ encoder = <<>> /\ decoder = <<>> /\ bpe_ranks = <<>> /\ cache = <<>>
    /\ output = NoOutput
    /\ pc = "file"
    /\ budget = 1
    /\ factory = <<>>
    /\ NoThreads

\* lines 257-265; output.val is the list bpe_merges given to Encoder
LoadEncoder ==
    /\ pc = "file"
    /\ \E bpe_merges \in {LoadMerges(input.bpe_data)} :
          \E obj \in {NewEncoder(TinyVocab, bpe_merges)} :
             /\ encoder' = obj.encoder
             /\ decoder' = obj.decoder
             /\ bpe_ranks' = obj.bpe_ranks
             /\ cache' = obj.cache
             /\ output' = [NoOutput EXCEPT !.val = bpe_merges]
    /\ pc' = "loaded"
    /\ UNCHANGED <<input, budget, factory, threads, lock>>

LoadNext == LoadEncoder

SpecLoad == LoadInit /\ [][LoadNext]_vars

(* C13: what get_encoder reads from a merge file *)

\* C13 as stated: for a file of a header line and k rule lines, with or
\* without a final newline, the merge list given to Encoder is exactly the
\* k rules in file order.
C13_AsStated ==
    pc = "loaded" => output.val = input.rules

----------------------------------------------------------------------------
(* SpaceSeparatedTokenizer, lines 218-248 *)

MaxSsChars == 4     \* characters of a text given to SpaceSeparatedTokenizer

\* the line boundaries of str.splitlines()
IsLineBreak(c) == c \in (10..13) \cup (28..30) \cup {133, 8232, 8233}

\* where a line terminator ends: a '\r' followed by '\n' ends with the '\n'
LineEnds(s) ==
    {i \in 1..Len(s) : /\ IsLineBreak(s[i])
                       /\ ~(s[i] = 13 /\ i < Len(s) /\ s[i + 1] = 10)}

\* str.splitlines(): the lines without their terminators; no empty last line
SplitLines(s) ==
    With(LineEnds(s), LAMBDA ends :
    With({p \in {1} \cup {e + 1 : e \in ends} : p <= Len(s)}, LAMBDA starts :
        [k \in 1..Cardinality(starts) |->
            With(Kth(starts, k), LAMBDA p :
            With(IF \E e \in ends : e >= p
                 THEN Kth({e \in ends : e >= p}, 1) ELSE Len(s) + 1, LAMBDA e :
                SubSeq(s, p, IF e <= Len(s) /\ s[e] = 10 /\ e - 1 >= p /\ s[e - 1] = 13
                             THEN e - 2 ELSE e - 1))) ]))

\* sep.join(parts)
Join(parts, sep) ==
    Concat([i \in 1..(2 * Len(parts) - 1) |->
               IF i % 2 = 1 THEN parts[(i + 1) \div 2] ELSE sep])

\* s.replace(old, new) for a non-empty old
Replace(s, old, new) == Join(Split(s, old), new)

\* s.endswith(suffix)
EndsWith(s, suffix) ==
    Len(s) >= Len(suffix) /\ SubSeq(s, Len(s) - Len(suffix) + 1, Len(s)) = suffix

\* a line whose unknown words are left out
SsLineIdsSkipping(line, enc) ==
    With(SelectSeq(SplitWhitespace(line), LAMBDA w : DictHas(enc, w)), LAMBDA known :
        [err |-> "none",
         val |-> [i \in 1..Len(known) |-> DictGet(enc, known[i])] \o
                 (IF DictHas(enc, <<10>>) THEN <<DictGet(enc, <<10>>)>> ELSE <<>>)])

\* lines 241-244: the ids of one line's words, then the id of '\n' if the
\* vocabulary has one
SsLineIds(line, enc) ==
    With(LookupAll(enc, SplitWhitespace(line)), LAMBDA ids :
        IF ids.err # "none" THEN ids
        ELSE [err |-> "none",
              val |-> ids.val \o
                      (IF DictHas(enc, <<10>>) THEN <<DictGet(enc, <<10>>)>> ELSE <<>>)])

\* SpaceSeparatedTokenizer.encode, lines 238-248
SsEncode(text, enc) ==
    With(SplitLines(text), LAMBDA lines :
    With([i \in 1..Len(lines) |-> SsLineIds(lines[i], enc)], LAMBDA per :
        IF \E i \in 1..Len(per) : per[i].err # "none"
        THEN [err |-> "KeyError", val |-> <<>>]
        ELSE With(Concat([i \in 1..Len(per) |-> per[i].val]), LAMBDA tokens :
                [err |-> "none",
                 val |-> IF /\ Len(tokens) > 0
                            /\ DictHas(enc, <<10>>)
                            /\ tokens[Len(tokens)] = DictGet(enc, <<10>>)
                            /\ ~EndsWith(text, <<10>>)
                         THEN SubSeq(tokens, 1, Len(tokens) - 1)
                         ELSE tokens])))

\* SpaceSeparatedTokenizer.decode, line 225
SsDecode(tokens, dec) ==
    With(FnLookupAll(dec, tokens), LAMBDA words :
        IF words.err # "none" THEN words
        ELSE [err |-> "none",
              val |-> Replace(Join(words.val, <<32>>), <<32, 10, 32>>, <<10>>)])

\* {"a":0, "b":1, "\n":2} and {"a":0, "b":1}
SsVocabs == { << <<<<97>>, 0>>, <<<<98>>, 1>>, <<<<10>>, 2>> >>,
              << <<<<97>>, 0>>, <<<<98>>, 1>> >> }

\* the characters of the texts: a b c space '\n' '\r'
SsChars == {97, 98, 99, 32, 10, 13}

\* the state after SpaceSeparatedTokenizer.__init__ (lines 219-222), with the
\* text it will be given in input
SsInit ==
    /\ \E enc \in SsVocabs :
          /\ encoder = enc
          /\ decoder = InvertDict(enc)
    /\ input \in SeqsUpTo(SsChars, MaxSsChars)
    /\ bpe_ranks = <<>> /\ cache = <<>>
    /\ output = NoOutput
    /\ pc = "ssReady"
    /\ budget = 1
    /\ factory = <<>>
    /\ NoThreads

\* encode(input); output.val is the list of ids
SsCallEncode ==
    /\ pc = "ssReady"
    /\ \E r \in {SsEncode(input, encoder)} :
          output' = [NoOutput EXCEPT !.err = r.err, !.val = r.val]
    /\ pc' = "ssEncoded"
    /\ UNCHANGED <<encoder, decoder, bpe_ranks, cache, input, budget, factory,
                   threads, lock>>

\* decode of the ids encode returned; output.chunks keeps the ids and
\* output.val is the decoded text
SsCallDecode ==
    /\ pc = "ssEncoded"
    /\ output.err = "none"
    /\ \E r \in {SsDecode(output.val, decoder)} :
          output' = [NoOutput EXCEPT !.err = r.err, !.val = r.val,
                                     !.chunks = output.val]
    /\ pc' = "ssDecoded"
    /\ UNCHANGED <<encoder, decoder, bpe_ranks, cache, input, budget, factory,
                   threads, lock>>

SsNext == SsCallEncode \/ SsCallDecode

SpecSs == SsInit /\ [][SsNext]_vars

(* C14: a word outside the vocabulary *)

\* some maximal run of non-whitespace characters of text is not a key of enc
HasUnknownWord(text, enc) ==
    \E i \in 1..Len(text) : \E j \in i..Len(text) :
        /\ \A k \in i..j : ~IsPySpace(text[k])
        /\ i = 1 \/ IsPySpace(text[i - 1])
        /\ j = Len(text) \/ IsPySpace(text[j + 1])
        /\ ~DictHas(enc, SubSeq(text, i, j))

\* C14: a call of SpaceSeparatedTokenizer.encode on a text with at least one
\* whitespace-delimited word that is not in the vocabulary fails with an
\* error and yields no ids (no word is skipped, no id substituted), and the
\* vocabulary is the same after the call.
C14_FailFast ==
    [][(pc = "ssReady" /\ pc' = "ssEncoded" /\ HasUnknownWord(input, encoder))
          => /\ output'.err = "KeyError"
             /\ output'.val = <<>>
             /\ encoder' = encoder
             /\ decoder' = decoder]_vars

\* encode("a c") has failed on the unknown word c after the known word a
C14_Witness ==
    /\ pc = "ssEncoded"
    /\ input = <<97, 32, 99>>
    /\ HasUnknownWord(input, encoder)
    /\ output.err = "KeyError"

(* C16: decode after encode in SpaceSeparatedTokenizer *)

\* lines separated by '\n', each line words of enc separated by single spaces
SsWellFormed(text, enc) ==
    \A l \in 1..Len(Split(text, <<10>>)) :
        With(Split(text, <<10>>)[l], LAMBDA line :
            /\ \A k \in 1..Len(line) : IsPySpace(line[k]) => line[k] = 32
            /\ line = Join(SplitWhitespace(line), <<32>>)
            /\ ~HasUnknownWord(line, enc))

\* C16 as stated: with '\n' in the vocabulary, decode(encode(text)) is text
\* for every text of '\n'-separated lines of in-vocabulary words separated
\* by single spaces.
C16_AsStated ==
    (pc = "ssDecoded" /\ DictHas(encoder, <<10>>) /\ SsWellFormed(input, encoder))
        => (output.err = "none" /\ output.val = input)

----------------------------------------------------------------------------
(* HighSpeedTokenizer.encode, lines 192-212.  The engine behind tokenize is *)
(* not part of the repository; the model keeps what encode hands to it: a   *)
(* list of items, [sep |-> FALSE, text |-> part] for a call tokenize(part)  *)
(* and [sep |-> TRUE, text |-> <<>>] for the separator's id appended from   *)
(* self.encoder.                                                            *)

MaxHsPieces == 4    \* pieces of a text given to HighSpeedTokenizer.encode

\* lines 200-210 for one line, c being the terminator put back on it
HsLineItems(line, c) ==
    With(Split(line, EndOfText), LAMBDA parts :
        Concat([k \in 1..Len(parts) |->
                   (IF k > 1 THEN <<[sep |-> TRUE, text |-> <<>>]>> ELSE <<>>) \o
                   <<[sep |-> FALSE,
                      text |-> IF k = Len(parts) THEN parts[k] \o c ELSE parts[k]]>>]))

\* lines 192-212: every line but the last gets '\n' back, and a text that
\* ends with '\n' gets one more call tokenize('\n')
HsEncodeItems(text) ==
    With(SplitLines(text), LAMBDA lines :
        Concat([i \in 1..Len(lines) |->
                   HsLineItems(lines[i], IF i < Len(lines) THEN <<10>> ELSE <<>>)])
        \o (IF EndsWith(text, <<10>>) THEN <<[sep |-> FALSE, text |-> <<10>>]>>
            ELSE <<>>))

\* the pieces of the texts: a space '\n' '\r' and the separator
HsPieces == { <<97>>, <<32>>, <<10>>, <<13>>, EndOfText }

\* the state after HighSpeedTokenizer.__init__ (lines 130-179), whose
\* vocabulary has the separator, with the text it will be given in input
HsInit ==
    /\ encoder = TinyVocab
    /\ decoder = InvertDict(TinyVocab)
    /\ input \in TextsOf(HsPieces, MaxHsPieces)
    /\ bpe_ranks = <<>> /\ cache = <<>>
    /\ output = NoOutput
    /\ pc = "hsReady"
    /\ budget = 1
    /\ factory = <<>>
    /\ NoThreads

\* encode(input); output.chunks is the list of items
HsCallEncode ==
    /\ pc = "hsReady"
    /\ \E items \in {HsEncodeItems(input)} :
          output' = [NoOutput EXCEPT !.chunks = items]
    /\ pc' = "hsEncoded"
    /\ UNCHANGED <<encoder, decoder, bpe_ranks, cache, input, budget, factory,
                   threads, lock>>

HsNext == HsCallEncode

SpecHs == HsInit /\ [][HsNext]_vars

(* C15: what the accelerated backend hands to its engine *)

\* the items in order, with '<|endoftext|>' for each separator id
HsReassembled(items) ==
    Concat([k \in 1..Len(items) |-> IF items[k].sep THEN EndOfText ELSE items[k].text])

\* C15 as stated: for every text over ordinary characters, '\n', '\r' and
\* the separator, the pieces encode passes to the engine, concatenated in
\* order with the separator where its id is emitted, are the text itself.
C15_AsStated ==
    pc = "hsEncoded" => HsReassembled(output.chunks) = input

----------------------------------------------------------------------------
(* re.findall(self.pat, part), line 110, on its own *)

MaxPatChars == 5    \* characters of a fragment given to the pattern

\* the characters of the fragments: a b space '\n' !
PatChars == {97, 98, 32, 10, 33}

PatInit ==
    /\ \E cfg \in {c \in Configs : c.obj.bpe_ranks = <<>>} :
          /\ encoder = cfg.obj.encoder
          /\ decoder = cfg.obj.decoder
          /\ bpe_ranks = cfg.obj.bpe_ranks
          /\ cache = cfg.obj.cache
    /\ input \in SeqsUpTo(PatChars, MaxPatChars)
    /\ output = NoOutput
    /\ pc = "patReady"
    /\ budget = 1
    /\ factory = <<>>
    /\ NoThreads

\* output.chunks is the list findall returns for the fragment
PatFindAll ==
    /\ pc = "patReady"
    /\ \E toks \in {FindAll(input, 1)} :
          output' = [NoOutput EXCEPT !.chunks = toks]
    /\ pc' = "patFound"
    /\ UNCHANGED <<encoder, decoder, bpe_ranks, cache, input, budget, factory,
                   threads, lock>>

PatNext == PatFindAll

SpecPat == PatInit /\ [][PatNext]_vars

(* C17: spaces before a word and at the end of a fragment *)

\* s is letters up to i, then spaces, then letters from j on
IsRunSpacesRun(s, i, j) ==
    /\ 1 <= i /\ i + 1 < j /\ j <= Len(s)
    /\ \A k \in 1..i : IsLetter(s[k])
    /\ \A k \in (i + 1)..(j - 1) : s[k] = 32
    /\ \A k \in j..Len(s) : IsLetter(s[k])

\* where the whitespace run at the end of s starts
TrailingStart(s) ==
    CHOOSE t \in 1..Len(s) :
        /\ \A k \in t..Len(s) : IsSpace(s[k])
        /\ t = 1 \/ ~IsSpace(s[t - 1])

\* C17: a fragment made of a letter run, k >= 1 spaces and a second letter
\* run is cut into the first run, then (only when k > 1) one chunk of k-1
\* spaces, then the second run with exactly one space in front; and when a
\* fragment ends in a whitespace run, that whole run is the last chunk.
C17_SpaceAttachment ==
    pc = "patFound" =>
        /\ \A i \in 1..Len(input) : \A j \in 1..Len(input) :
              IsRunSpacesRun(input, i, j) =>
                 output.chunks =
                     <<SubSeq(input, 1, i)>> \o
                     (IF j - i - 1 > 1 THEN <<SubSeq(input, i + 1, j - 2)>> ELSE <<>>) \o
                     <<SubSeq(input, j - 1, Len(input))>>
        /\ (Len(input) > 0 /\ IsSpace(input[Len(input)])) =>
              /\ Len(output.chunks) > 0
              /\ output.chunks[Len(output.chunks)] =
                    SubSeq(input, TrailingStart(input), Len(input))

\* "a   b" has been cut into a, two spaces, and " b"
C17_Witness ==
    /\ pc = "patFound"
    /\ input = <<97, 32, 32, 32, 98>>
    /\ IsRunSpacesRun(input, 1, 5)
    /\ output.chunks = << <<97>>, <<32, 32>>, <<32, 98>> >>

----------------------------------------------------------------------------
(* C18: one pass of the loop of bpe *)

\* where the pair p = (left, right) occurs in word w
Occurrences(w, p) == {i \in 1..(Len(w) - 1) : w[i] = p[1] /\ w[i + 1] = p[2]}

\* the first of the consecutive occurrences that end with the one at i
BlockStart(occ, i) ==
    CHOOSE a \in 1..i : (\A k \in a..i : k \in occ) /\ (a - 1) \notin occ

\* the occurrences a left-to-right scan merges: an occurrence that overlaps
\* one already merged is passed over
Taken(w, p) ==
    With(Occurrences(w, p), LAMBDA occ :
        {i \in occ : (i - BlockStart(occ, i)) % 2 = 0})

\* w with every taken occurrence replaced by left+right, the rest in order
Merged(w, p) ==
    With(Taken(w, p), LAMBDA taken :
        Concat([i \in 1..Len(w) |->
                   IF i \in taken THEN <<p[1] \o p[2]>>
                   ELSE IF (i - 1) \in taken THEN <<>>
                   ELSE <<w[i]>>]))

\* thread t runs one iteration of the loop in this step
LoopStep(t) ==
    /\ pc = "bpeSteps"
    /\ threads[t].pc = "loop"
    /\ threads'[t].pc \in {"loop", "join"}

\* C18: an iteration of the loop of bpe merges the adjacent pair of least
\* rank among the pairs adjacent in the word, unranked pairs counting as
\* infinite (no ranked pair: no merge); it replaces every non-overlapping
\* occurrence of that pair, scanning left to right, by left+right and
\* leaves the other symbols in their order.
C18_MergePass ==
    [][\A t \in DOMAIN threads :
          LoopStep(t) =>
             With({p \in get_pairs(threads[t].word) : DictHas(bpe_ranks, p)},
                  LAMBDA ranked :
                     IF ranked = {} THEN threads'[t].word = threads[t].word
                     ELSE \E p \in ranked :
                             /\ \A q \in ranked :
                                   DictGet(bpe_ranks, p) <= DictGet(bpe_ranks, q)
                             /\ threads'[t].word = Merged(threads[t].word, p))]_vars

\* a,a,a with the rule (a,a) has become aa,a
C18_Witness ==
    /\ pc = "bpeSteps"
    /\ \E t \in DOMAIN threads :
          /\ threads[t].token = <<97, 97, 97>>
          /\ threads[t].pc = "loop"
          /\ DictHas(bpe_ranks, << <<97>>, <<97>> >>)
          /\ threads[t].word = << <<97, 97>>, <<97>> >>

----------------------------------------------------------------------------
(* C19: bpe comes to an end *)

\* thread t runs a merge pass in this step: an iteration of the loop on a
\* word with a ranked adjacent pair
MergeStep(t) ==
    /\ LoopStep(t)
    /\ \E p \in get_pairs(threads[t].word) : DictHas(bpe_ranks, p)

\* the symbols of a word returned by bpe
Symbols(val) == Split(val, <<32>>)

\* no merge applies to the word thread t got back from bpe
ReturnedFinal(t) ==
    (threads[t].pc = "done" /\ threads[t].err = "none") =>
        With(Symbols(threads[t].val), LAMBDA w :
            \/ Len(w) = 1
            \/ \A i \in 1..(Len(w) - 1) : ~DictHas(bpe_ranks, <<w[i], w[i + 1]>>))

\* C19: every call of bpe returns: each merge pass leaves the word with
\* strictly fewer symbols, every call that has started comes to its end,
\* and the word bpe returns is a single symbol or has no adjacent pair in
\* the rank table.
C19_Terminates ==
    /\ [][\A t \in {1} : MergeStep(t) => Len(threads'[t].word) < Len(threads[t].word)]_vars
    /\ [](pc = "bpeSteps" => \A t \in {1} : ReturnedFinal(t))
    /\ \A t \in {1} : (pc = "bpeSteps" /\ threads[t].pc = "test")
                          ~> (threads[t].pc = "done")

\* bpe("aba") under the rules (a,b) and (ab,a) has returned after two passes
C19_Witness ==
    /\ pc = "bpeSteps"
    /\ threads[1].pc = "done"
    /\ threads[1].err = "none"
    /\ ~threads[1].hit
    /\ threads[1].token = <<97, 98, 97>>
    /\ threads[1].val = <<97, 98, 97>>

----------------------------------------------------------------------------
(* Two threads calling bpe on one Encoder *)

\* the chunks the threads ask for: ab, aab
ThreadTokens == { <<97, 98>>, <<97, 97, 98>> }

\* one Encoder with a cache at or just below its capacity, two threads with
\* one call each to make, and callers that either all take a lock around
\* the call or none does
ThreadsInit ==
    /\ \E obj \in {NewEncoder(TinyVocab, Merges2)} :
          /\ encoder = obj.encoder
          /\ decoder = obj.decoder
          /\ bpe_ranks = obj.bpe_ranks
          /\ \E n \in (CacheCap - PrefillSlack)..CacheCap :
                cache = Prefilled(n, obj.bpe_ranks)
    /\ \E tok \in [ThreadIds -> ThreadTokens] :
          /\ threads = [t \in ThreadIds |-> NewCall(tok[t], 1)]
          /\ input = [bpe_merges |-> Merges2, token |-> tok[1]]
    /\ \E on \in BOOLEAN : lock = [on |-> on, holder |-> 0]
    /\ output = NoOutput
    /\ pc = "bpeSteps"
    /\ budget = 0
    /\ factory = <<>>

SpecThreads == ThreadsInit /\ [][BpeNext]_vars

(* C20: with and without mutual exclusion *)

\* what bpe(token) returns on an Encoder nobody else uses
Sequential(token) == Bpe(token, <<>>, bpe_ranks)

\* C20, first part: when the calls of bpe on one Encoder each run under a
\* lock, every call returns what a sequential run returns and none fails on
\* a cache access.
C20_LockedIsSequential ==
    (pc = "bpeSteps" /\ lock.on) =>
        \A t \in DOMAIN threads :
            threads[t].pc = "done" =>
                /\ threads[t].err = "none"
                /\ threads[t].val = Sequential(threads[t].token).val

\* C20, second part: without a lock, a call that found its chunk in the
\* cache has failed on the read that follows, the other call having
\* evicted the entry in between.
C20_Witness ==
    /\ pc = "bpeSteps"
    /\ ~lock.on
    /\ \E t \in DOMAIN threads : \E u \in DOMAIN threads \ {t} :
          /\ threads[t].pc = "done"
          /\ threads[t].hit
          /\ threads[t].err = "KeyError"
          /\ threads[u].popped > 0
          /\ ~DictHas(cache, threads[t].token)

----------------------------------------------------------------------------
(* C21: which code point each byte gets *)

\* the bytes that keep their value
SelfMapped == (33..126) \cup (161..172) \cup (174..255)

\* the other bytes
Remapped == (0..32) \cup (127..160) \cup {173}

\* the control code points below 256 (general category Cc)
IsControl(c) == c \in (0..31) \cup (127..159)

\* C21: a byte in 33..126, 161..172 or 174..255 maps to the code point equal
\* to it; each of the remaining 68 bytes maps to 256 plus the number of
\* remaining bytes below it, so the space maps to 288; and no byte maps to a
\* whitespace or control code point below 256.
C21_ByteMapRule ==
    pc = "char" =>
        /\ input \in SelfMapped => output = input
        /\ input \in Remapped =>
              /\ output = 256 + Cardinality({b \in Remapped : b < input})
              /\ output \in 256..323
        /\ input = 32 => output = 288
        /\ ~(output < 256 /\ (IsSpace(output) \/ IsControl(output)))

\* the space has been mapped to code point 288
C21_Witness ==
    /\ pc = "char"
    /\ input = 32
    /\ output = 288

----------------------------------------------------------------------------
(* C22: bpe neither loses, adds nor reorders characters *)

\* C22: for a non-empty chunk without a space, the symbols of the word of a
\* call of bpe, concatenated in order, are the chunk before and after every
\* merge pass, and the word bpe returns, split on spaces and joined again,
\* is the chunk.
C22_ChunkPreserved ==
    pc = "bpeSteps" =>
        \A t \in DOMAIN threads :
            (Len(threads[t].token) > 0 /\ \A k \in 1..Len(threads[t].token) :
                                              threads[t].token[k] # 32) =>
                /\ threads[t].pc \in {"loop", "join", "size", "pop"}
                      => Concat(threads[t].word) = threads[t].token
                /\ (threads[t].pc = "done" /\ threads[t].err = "none")
                      => Concat(Symbols(threads[t].val)) = threads[t].token

\* bpe("abc") has merged b and c only and returned "a bc"
C22_Witness ==
    /\ pc = "bpeSteps"
    /\ \E t \in DOMAIN threads :
          /\ threads[t].pc = "done"
          /\ threads[t].err = "none"
          /\ ~threads[t].hit
          /\ threads[t].token = <<97, 98, 99>>
          /\ threads[t].val = <<97, 32, 98, 99>>

----------------------------------------------------------------------------
(* C23: what a full cache evicts *)

\* thread t runs self.cache.popitem() in this step
PopStep(t) ==
    /\ pc = "bpeSteps"
    /\ threads[t].pc = "pop"
    /\ threads'[t].pc = "size"

\* C23: once the cache holds 1000 entries, a call of bpe on an uncached
\* chunk of several characters inserts its result and then evicts that very
\* entry: each popitem removes the entry of the chunk the call has just
\* inserted, the first 1000 entries stay as they are in every step, and
\* when the call returns the cache is at capacity without the chunk.
C23_NewestEvicted ==
    /\ [][\A t \in {1} :
             PopStep(t) =>
                /\ cache[Len(cache)] = <<threads[t].token, threads[t].val>>
                /\ cache' = SubSeq(cache, 1, Len(cache) - 1)]_vars
    /\ [][(pc = "bpeSteps" /\ Len(cache) >= CacheCap) =>
             SubSeq(cache', 1, CacheCap) = SubSeq(cache, 1, CacheCap)]_vars
    /\ [](\A t \in {1} :
             (/\ pc = "bpeSteps"
              /\ threads[t].pc = "done"
              /\ threads[t].err = "none"
              /\ ~threads[t].hit
              /\ Len(threads[t].token) > 1
              /\ Len(cache) >= CacheCap)
                => /\ Len(cache) = CacheCap
                   /\ threads[t].popped = 1
                   /\ ~DictHas(cache, threads[t].token))

\* the second call of bpe on the same chunk has again missed the full cache,
\* inserted its result and evicted it
C23_Witness ==
    /\ pc = "bpeSteps"
    /\ threads[1].pc = "done"
    /\ threads[1].calls = 0
    /\ threads[1].err = "none"
    /\ ~threads[1].hit
    /\ threads[1].popped = 1
    /\ Len(threads[1].token) > 1
    /\ Len(cache) = CacheCap
    /\ ~DictHas(cache, threads[1].token)

====
